---- MODULE Spec2Model ----
(***************************************************************************)
(* Min-max heap of mmheap.h (Atkinson et al. 1986): the functions of the   *)
(* namespaces _mmheap and mmheap over a caller-owned array and a count.    *)
(*                                                                         *)
(* The occupied slots [0, count) are the state.  Slots at index >= count   *)
(* are caller storage whose content the library does not define (never     *)
(* initialised, or left over from an earlier call): the state does not     *)
(* carry them, and every call sees them filled with an arbitrary value.    *)
(* Every array read and write of a call is recorded (rd, wr, oob).         *)
(***************************************************************************)
EXTENDS Integers, Sequences, FiniteSets, TLC

\* ------------------------------------------------------------------ bounds
\* largest max_size (physical allocation) a caller passes
MaxCap == 8
\* the values stored are 0..MaxVal
MaxVal == 2

Vals == 0..MaxVal
\* slot MaxCap stands for the memory right behind the largest allocation
Slots == 0..MaxCap

\* ------------------------------------------------- 64-bit words (uint64_t)
\* a word is its eight bytes, least significant first
Pow2(k) == 2^k

\* the word of a natural number below 2^31
ToWord(n) ==
    << n % 256, (n \div 256) % 256, (n \div 65536) % 256, (n \div 16777216) % 256,
       0, 0, 0, 0 >>

Byte(w, j) == IF j \in 1..8 THEN w[j] ELSE 0

\* i >> k for k = 8 * q + b
Shr(w, k) ==
    LET q == k \div 8
        b == k % 8
        B(j) == (Byte(w, j + q) \div Pow2(b)) + (Byte(w, j + q + 1) % Pow2(b)) * Pow2(8 - b)
    IN  << B(1), B(2), B(3), B(4), B(5), B(6), B(7), B(8) >>

RECURSIVE BitOr(_, _)
BitOr(x, y) ==
    IF x = 0 THEN y
    ELSE IF y = 0 THEN x
    ELSE (IF x % 2 = 1 \/ y % 2 = 1 THEN 1 ELSE 0) + 2 * BitOr(x \div 2, y \div 2)

\* i | k
Or(w, v) ==
    << BitOr(w[1], v[1]), BitOr(w[2], v[2]), BitOr(w[3], v[3]), BitOr(w[4], v[4]),
       BitOr(w[5], v[5]), BitOr(w[6], v[6]), BitOr(w[7], v[7]), BitOr(w[8], v[8]) >>

RECURSIVE SubFrom(_, _, _, _)
SubFrom(w, v, j, borrow) ==
    IF j > 8 THEN << >>
    ELSE LET d == w[j] - v[j] - borrow
         IN  << (d + 256) % 256 >> \o SubFrom(w, v, j + 1, IF d < 0 THEN 1 ELSE 0)
\* w - v modulo 2^64
Sub64(w, v) == SubFrom(w, v, 1, 0)

RECURSIVE ColSum(_, _, _, _)
ColSum(w, v, k, i) ==
    IF i > k THEN 0 ELSE w[i] * v[k + 1 - i] + ColSum(w, v, k, i + 1)

RECURSIVE MulFrom(_, _, _, _)
MulFrom(w, v, k, carry) ==
    IF k > 8 THEN << >>
    ELSE LET s == carry + ColSum(w, v, k, 1)
         IN  << s % 256 >> \o MulFrom(w, v, k + 1, s \div 256)
\* w * v modulo 2^64
Mul64(w, v) == MulFrom(w, v, 1, 0)

\* 0x07EDD5E59A4E28C2
Magic == << 194, 40, 78, 154, 229, 213, 237, 7 >>

tab64 ==
    << 63,  0, 58,  1, 59, 47, 53,  2,
       60, 39, 48, 27, 54, 33, 42,  3,
       61, 51, 37, 40, 49, 18, 28, 20,
       55, 30, 34, 11, 43, 14, 22,  4,
       62, 57, 46, 52, 38, 26, 32, 41,
       50, 36, 17, 19, 29, 10, 13, 21,
       56, 45, 25, 31, 35, 16,  9, 12,
       44, 24, 15,  8, 23,  7,  6,  5 >>

\* the smearing without its last step, i |= i >> 32
RECURSIVE SmearFrom_Short(_, _)
SmearFrom_Short(w, k) == IF k > 16 THEN w ELSE SmearFrom_Short(Or(w, Shr(w, k)), 2 * k)

\* i |= i >> k for k = 1, 2, 4, 8, 16, 32
RECURSIVE SmearFrom(_, _)
SmearFrom(w, k) == IF k > 32 THEN w ELSE SmearFrom(Or(w, Shr(w, k)), 2 * k)
\* i |= i >> 1; ... ; i |= i >> 32
Smear(w) == SmearFrom(w, 1)

\* i - (i >> 1)
TopBit(w) == Sub64(w, Shr(w, 1))

\* log_2 on a word: tab64[((i - (i >> 1)) * 0x07EDD5E59A4E28C2) >> 58]
log_2_word(w) == tab64[Shr(Mul64(TopBit(Smear(w)), Magic), 58)[1] + 1]

\* the arguments log_2 gets from min_level in this model: an index plus one
Log2Args == 1..(2 * MaxCap + 4)
log_2_memo == [i \in Log2Args |-> log_2_word(ToWord(i))]
log_2(i) == log_2_memo[i]

\* ------------------------------------------------------- index arithmetic
parent(i) == (i - 1) \div 2
has_parent(i) == i > 0
left(i) == 2 * i + 1
right(i) == 2 * i + 2
gparent(i) == parent(parent(i))
has_gparent(i) == i > 2
child(i, c) == c = left(i) \/ c = right(i)

\* ++i modulo 2^64
RECURSIVE IncFrom(_, _, _)
IncFrom(w, j, carry) ==
    IF j > 8 THEN << >>
    ELSE << (w[j] + carry) % 256 >> \o IncFrom(w, j + 1, (w[j] + carry) \div 256)
Inc64(w) == IncFrom(w, 1, 1)

\* min_level on a word
min_level_word(w) == IF w # ToWord(0) THEN log_2_word(Inc64(w)) % 2 = 0 ELSE TRUE

min_level(i) == IF i > 0 THEN log_2(i + 1) % 2 = 0 ELSE TRUE

\* ------------------------------------------------ instrumented array access
\* A call works on m: the array a, the count, the slots read (rd) and written
\* (wr) so far, and oob: some slot was read at an index >= count at that moment;
\* touched: the array was accessed since the last repair primitive returned.
Rd(m, S) ==
    [m EXCEPT !.rd = @ \cup S, !.oob = @ \/ (\E i \in S : i >= m.count),
              !.touched = @ \/ S # {}]
Wr(m, S) == [m EXCEPT !.wr = @ \cup S, !.touched = @ \/ S # {}]

\* heap_array[i] = v
Store(m, i, v) == Wr([m EXCEPT !.a[i] = v], {i})

\* std::swap(heap_array[i], heap_array[j])
\* Swap that copies slot j to slot i and loses the value of slot i
Swap_CopyOnly(m, i, j) == Wr(Rd([m EXCEPT !.a[i] = m.a[j]], {i, j}), {i, j})

Swap(m, i, j) ==
    Wr(Rd([m EXCEPT !.a[i] = m.a[j], !.a[j] = m.a[i]], {i, j}), {i, j})

\* ------------------------------------------- extremal child / grandchild
\* each lookup returns the pair (first, second) and the slots it read
NoChild == [first |-> FALSE, second |-> 0, rd |-> {}]
Found(x) == [first |-> TRUE, second |-> x.m, rd |-> x.rd]

\* auto m = c
FirstCandidate(c) == [m |-> c, rd |-> {}]

\* if(c <= right_index && heap_array[c] < heap_array[m]){ m = c; }
\* SmallerOf that takes the later candidate also when the two are equal
SmallerOf_OrEqual(a, x, c, right_index) ==
    IF c <= right_index
    THEN [m |-> IF a[c] <= a[x.m] THEN c ELSE x.m, rd |-> x.rd \cup {c, x.m}]
    ELSE x

SmallerOf(a, x, c, right_index) ==
    IF c <= right_index
    THEN [m |-> IF a[c] < a[x.m] THEN c ELSE x.m, rd |-> x.rd \cup {c, x.m}]
    ELSE x

\* if(c <= right_index && heap_array[m] < heap_array[c]){ m = c; }
LargerOf(a, x, c, right_index) ==
    IF c <= right_index
    THEN [m |-> IF a[x.m] < a[c] THEN c ELSE x.m, rd |-> x.rd \cup {c, x.m}]
    ELSE x

min_child(a, i, right_index) ==
    IF left(i) <= right_index
    THEN Found(SmallerOf(a, FirstCandidate(left(i)), right(i), right_index))
    ELSE NoChild

\* min_gchild that leaves out the last grandchild
min_gchild_ThreeOnly(a, i, right_index) ==
    IF left(left(i)) <= right_index
    THEN Found(SmallerOf(a,
                 SmallerOf(a, FirstCandidate(left(left(i))), right(left(i)), right_index),
                 left(right(i)), right_index))
    ELSE NoChild

min_gchild(a, i, right_index) ==
    IF left(left(i)) <= right_index
    THEN Found(SmallerOf(a,
                 SmallerOf(a,
                   SmallerOf(a, FirstCandidate(left(left(i))), right(left(i)), right_index),
                   left(right(i)), right_index),
                 right(right(i)), right_index))
    ELSE NoChild

\* m.second = gm.first && heap_array[gm.second] < heap_array[m.second] ? gm.second : m.second
SmallerOfBoth(a, m, gm) ==
    IF m.first
    THEN [first |-> TRUE,
          second |-> IF gm.first /\ a[gm.second] < a[m.second] THEN gm.second ELSE m.second,
          rd |-> m.rd \cup gm.rd \cup (IF gm.first THEN {gm.second, m.second} ELSE {})]
    ELSE m

min_child_or_gchild(a, i, right_index) ==
    SmallerOfBoth(a, min_child(a, i, right_index), min_gchild(a, i, right_index))

max_child(a, i, right_index) ==
    IF left(i) <= right_index
    THEN Found(LargerOf(a, FirstCandidate(left(i)), right(i), right_index))
    ELSE NoChild

max_gchild(a, i, right_index) ==
    IF left(left(i)) <= right_index
    THEN Found(LargerOf(a,
                 LargerOf(a,
                   LargerOf(a, FirstCandidate(left(left(i))), right(left(i)), right_index),
                   left(right(i)), right_index),
                 right(right(i)), right_index))
    ELSE NoChild

\* m.second = gm.first && heap_array[m.second] < heap_array[gm.second] ? gm.second : m.second
LargerOfBoth(a, m, gm) ==
    IF m.first
    THEN [first |-> TRUE,
          second |-> IF gm.first /\ a[m.second] < a[gm.second] THEN gm.second ELSE m.second,
          rd |-> m.rd \cup gm.rd \cup (IF gm.first THEN {gm.second, m.second} ELSE {})]
    ELSE m

max_child_or_gchild(a, i, right_index) ==
    LargerOfBoth(a, max_child(a, i, right_index), max_gchild(a, i, right_index))

\* ------------------------------------------------------------- sift_down
\* if(heap_array[parent(m)] < heap_array[m]) std::swap(heap_array[m], heap_array[parent(m)])
SwapIfParentSmaller(h, m) ==
    IF h.a[parent(m)] < h.a[m]
    THEN Swap(Rd(h, {parent(m), m}), m, parent(m))
    ELSE Rd(h, {parent(m), m})

\* if(heap_array[m] < heap_array[parent(m)]) std::swap(heap_array[m], heap_array[parent(m)])
SwapIfParentLarger(h, m) ==
    IF h.a[m] < h.a[parent(m)]
    THEN Swap(Rd(h, {parent(m), m}), m, parent(m))
    ELSE Rd(h, {parent(m), m})

\* sift_down_min that leaves out the swap with parent(m) after a grandchild swap
RECURSIVE sift_down_min_NoParentFix(_, _, _)
RECURSIVE sift_down_min_body_NoParentFix(_, _, _, _)
sift_down_min_body_NoParentFix(h, sift_index, right_index, mp) ==
    IF h.a[mp.second] < h.a[sift_index]
    THEN IF child(sift_index, mp.second)
         THEN Swap(Rd(h, mp.rd \cup {mp.second, sift_index}), mp.second, sift_index)
         ELSE sift_down_min_NoParentFix(
                  Swap(Rd(h, mp.rd \cup {mp.second, sift_index}), mp.second, sift_index),
                  mp.second, right_index)
    ELSE Rd(h, mp.rd \cup {mp.second, sift_index})

sift_down_min_NoParentFix(h, sift_index, right_index) ==
    IF left(sift_index) <= right_index
    THEN sift_down_min_body_NoParentFix(h, sift_index, right_index,
                                        min_child_or_gchild(h.a, sift_index, right_index))
    ELSE h

RECURSIVE sift_down_min(_, _, _)
RECURSIVE sift_down_min_body(_, _, _, _)
\* the body of the while loop, with mp the min child or grandchild
sift_down_min_body(h, sift_index, right_index, mp) ==
    IF child(sift_index, mp.second)
    THEN IF h.a[mp.second] < h.a[sift_index]
         THEN Swap(Rd(h, mp.rd \cup {mp.second, sift_index}), mp.second, sift_index)
         ELSE Rd(h, mp.rd \cup {mp.second, sift_index})
    ELSE IF h.a[mp.second] < h.a[sift_index]
         THEN sift_down_min(
                  SwapIfParentSmaller(
                      Swap(Rd(h, mp.rd \cup {mp.second, sift_index}), mp.second, sift_index),
                      mp.second),
                  mp.second, right_index)
         ELSE Rd(h, mp.rd \cup {mp.second, sift_index})

\* one evaluation is one test of the while condition
sift_down_min(h, sift_index, right_index) ==
    IF left(sift_index) <= right_index
    THEN sift_down_min_body(h, sift_index, right_index,
                            min_child_or_gchild(h.a, sift_index, right_index))
    ELSE h

RECURSIVE sift_down_max(_, _, _)
RECURSIVE sift_down_max_body(_, _, _, _)
sift_down_max_body(h, sift_index, right_index, mp) ==
    IF child(sift_index, mp.second)
    THEN IF h.a[sift_index] < h.a[mp.second]
         THEN Swap(Rd(h, mp.rd \cup {mp.second, sift_index}), mp.second, sift_index)
         ELSE Rd(h, mp.rd \cup {mp.second, sift_index})
    ELSE IF h.a[sift_index] < h.a[mp.second]
         THEN sift_down_max(
                  SwapIfParentLarger(
                      Swap(Rd(h, mp.rd \cup {mp.second, sift_index}), mp.second, sift_index),
                      mp.second),
                  mp.second, right_index)
         ELSE Rd(h, mp.rd \cup {mp.second, sift_index})

sift_down_max(h, sift_index, right_index) ==
    IF left(sift_index) <= right_index
    THEN sift_down_max_body(h, sift_index, right_index,
                            max_child_or_gchild(h.a, sift_index, right_index))
    ELSE h

\* sift_down that takes every index for one on a min level
sift_down_AlwaysMin(h, sift_index, right_index) ==
    sift_down_min(h, sift_index, right_index)

sift_down(h, sift_index, right_index) ==
    IF min_level(sift_index)
    THEN sift_down_min(h, sift_index, right_index)
    ELSE sift_down_max(h, sift_index, right_index)

\* ------------------------------------------------------------- bubble_up
RECURSIVE bubble_up_min(_, _)
bubble_up_min(h, bubble_index) ==
    IF has_gparent(bubble_index)
    THEN IF h.a[bubble_index] < h.a[gparent(bubble_index)]
         THEN bubble_up_min(Swap(Rd(h, {bubble_index, gparent(bubble_index)}),
                                 bubble_index, gparent(bubble_index)),
                            gparent(bubble_index))
         ELSE Rd(h, {bubble_index, gparent(bubble_index)})
    ELSE h

RECURSIVE bubble_up_max(_, _)
bubble_up_max(h, bubble_index) ==
    IF has_gparent(bubble_index)
    THEN IF h.a[gparent(bubble_index)] < h.a[bubble_index]
         THEN bubble_up_max(Swap(Rd(h, {bubble_index, gparent(bubble_index)}),
                                 bubble_index, gparent(bubble_index)),
                            gparent(bubble_index))
         ELSE Rd(h, {bubble_index, gparent(bubble_index)})
    ELSE h

\* the reads of has_parent(i) && heap_array[...] < heap_array[...]
RdParent(h, i) == IF has_parent(i) THEN Rd(h, {parent(i), i}) ELSE h

\* bubble_up that never compares with the parent
bubble_up_NoParentCheck(h, bubble_index) ==
    IF min_level(bubble_index)
    THEN bubble_up_min(h, bubble_index)
    ELSE bubble_up_max(h, bubble_index)

\* bubble_up that, after the exchange with the parent, goes on from the index
\* it was given, not from the parent
bubble_up_StaysAtIndex(h, bubble_index) ==
    IF min_level(bubble_index)
    THEN IF has_parent(bubble_index)
            /\ h.a[parent(bubble_index)] < h.a[bubble_index]
         THEN bubble_up_max(Swap(RdParent(h, bubble_index), bubble_index, parent(bubble_index)),
                            bubble_index)
         ELSE bubble_up_min(RdParent(h, bubble_index), bubble_index)
    ELSE IF has_parent(bubble_index)
            /\ h.a[bubble_index] < h.a[parent(bubble_index)]
         THEN bubble_up_min(Swap(RdParent(h, bubble_index), bubble_index, parent(bubble_index)),
                            bubble_index)
         ELSE bubble_up_max(RdParent(h, bubble_index), bubble_index)

bubble_up(h, bubble_index) ==
    IF min_level(bubble_index)
    THEN IF has_parent(bubble_index)
            /\ h.a[parent(bubble_index)] < h.a[bubble_index]
         THEN bubble_up_max(Swap(RdParent(h, bubble_index), bubble_index, parent(bubble_index)),
                            parent(bubble_index))
         ELSE bubble_up_min(RdParent(h, bubble_index), bubble_index)
    ELSE IF has_parent(bubble_index)
            /\ h.a[bubble_index] < h.a[parent(bubble_index)]
         THEN bubble_up_min(Swap(RdParent(h, bubble_index), bubble_index, parent(bubble_index)),
                            parent(bubble_index))
         ELSE bubble_up_max(RdParent(h, bubble_index), bubble_index)

\* ------------------------------------------------------ public operations
\* what() of the exceptions thrown
ErrNone         == "none"
ErrInsertFull   == "Cannot insert into heap - allocated size is full."
ErrMaxEmpty     == "Cannot get max value in empty heap."
ErrMinEmpty     == "Cannot get min value in empty heap."
ErrReplaceEmpty == "Cannot replace value in empty heap."
ErrRemoveAtEmpty == "Cannot remove value in empty heap."
ErrRemoveEmpty  == "Cannot remove from empty heap."
ErrIndexRange   == "Index beyond end of heap."

\* no value: the call returns void, or it threw
NoValue == -1
\* DataType{} of the integer element type
DefaultValue == 0

\* a public operation yields the array and count it leaves (h), the value it
\* returns (ret) and the exception it throws (err)
Returns(h, v) == [h |-> h, ret |-> v, err |-> ErrNone]
Throws(h, e) == [h |-> h, ret |-> NoValue, err |-> e]
\* r, a call that returns void, followed by return v
ThenReturns(r, v) == IF r.err = ErrNone THEN Returns(r.h, v) ELSE r

\* count++ and --count
Incremented(h) == [h EXCEPT !.count = @ + 1]
Decremented(h) == [h EXCEPT !.count = @ - 1]

\* the operation called the repair primitive name on index, and h is what the
\* primitive left when it returned
Repair(name, index, h) ==
    [h EXCEPT !.repairs = Append(@, [name |-> name, index |-> index]), !.touched = FALSE]

RECURSIVE make_heap_loop(_, _, _)
make_heap_loop(h, current, size) ==
    IF current = 0
    THEN Repair("sift_down", current, sift_down(h, current, size - 1))
    ELSE make_heap_loop(Repair("sift_down", current,
                        sift_down(h, current, size - 1)), current - 1, size)

\* make_heap that passes size - 2 as the right-most index
RECURSIVE make_heap_loop_ShortRange(_, _, _)
make_heap_loop_ShortRange(h, current, size) ==
    IF current = 0
    THEN Repair("sift_down", current, sift_down(h, current, size - 2))
    ELSE make_heap_loop_ShortRange(Repair("sift_down", current,
                        sift_down(h, current, size - 2)), current - 1, size)

make_heap_ShortRange(h, size) ==
    IF size > 1
    THEN Returns(make_heap_loop_ShortRange(h, parent(size - 1), size), NoValue)
    ELSE Returns(h, NoValue)

make_heap(h, size) ==
    IF size > 1
    THEN Returns(make_heap_loop(h, parent(size - 1), size), NoValue)
    ELSE Returns(h, NoValue)

\* heap_insert that tests count <= max_size
heap_insert_OffByOne(h, value, maxsize) ==
    IF h.count <= maxsize
    THEN Returns(Repair("bubble_up", (h.count + 1) - 1,
                        bubble_up(Incremented(Store(h, h.count, value)), (h.count + 1) - 1)), NoValue)
    ELSE Throws(h, ErrInsertFull)

heap_insert(h, value, maxsize) ==
    IF h.count < maxsize
    THEN Returns(Repair("bubble_up", (h.count + 1) - 1,
                        bubble_up(Incremented(Store(h, h.count, value)), (h.count + 1) - 1)), NoValue)
    ELSE Throws(h, ErrInsertFull)

\* return m.first ? heap_array[m.second] : heap_array[0]
ValueAtChildOrRoot(h, m) ==
    IF m.first
    THEN Returns(Rd(h, m.rd \cup {m.second}), h.a[m.second])
    ELSE Returns(Rd(h, m.rd \cup {0}), h.a[0])

\* heap_max that takes the left child without looking at the right one
heap_max_LeftOnly(h) ==
    IF h.count < 1
    THEN Throws(h, ErrMaxEmpty)
    ELSE IF left(0) <= h.count - 1
         THEN Returns(Rd(h, {left(0)}), h.a[left(0)])
         ELSE Returns(Rd(h, {0}), h.a[0])

heap_max(h) ==
    IF h.count < 1
    THEN Throws(h, ErrMaxEmpty)
    ELSE ValueAtChildOrRoot(h, max_child(h.a, 0, h.count - 1))

\* heap_min that takes the count down as if the minimum had been removed
heap_min_Decrementing(h) ==
    IF h.count < 1
    THEN Throws(h, ErrMinEmpty)
    ELSE Returns(Decremented(Rd(h, {0})), h.a[0])

\* heap_min without the test for the empty heap
heap_min_NoCheck(h) == Returns(Rd(h, {0}), h.a[0])

heap_min(h) ==
    IF h.count < 1
    THEN Throws(h, ErrMinEmpty)
    ELSE Returns(Rd(h, {0}), h.a[0])

\* SwapIfNewMin that never moves the new value to the root
SwapIfNewMin_Never(h, value, m) == Rd(h, {0})

\* if(value < heap_array[0]){ std::swap(heap_array[0], heap_array[m]); }
SwapIfNewMin(h, value, m) ==
    IF value < h.a[0] THEN Swap(Rd(h, {0}), 0, m) ELSE Rd(h, {0})

\* rotate_max_out that also replaces a maximum equal to the new value
rotate_max_out_AcceptEqual(h, value, maxsize, m, overflowed) ==
    IF value <= h.a[m]
    THEN IF maxsize > 1
         THEN Returns(Repair("sift_down", m,
                        sift_down(SwapIfNewMin(Store(h, m, value), value, m), m, maxsize - 1)),
                      <<overflowed, h.a[m]>>)
         ELSE Returns(Store(h, m, value), <<overflowed, h.a[m]>>)
    ELSE Returns(h, <<overflowed, value>>)

\* rotate_max_out that reports the maximum for a rejected value too
rotate_max_out_ReturnsMax(h, value, maxsize, m, overflowed) ==
    IF value < h.a[m]
    THEN IF maxsize > 1
         THEN Returns(Repair("sift_down", m,
                        sift_down(SwapIfNewMin(Store(h, m, value), value, m), m, maxsize - 1)),
                      <<overflowed, h.a[m]>>)
         ELSE Returns(Store(h, m, value), <<overflowed, h.a[m]>>)
    ELSE Returns(h, <<overflowed, h.a[m]>>)

\* the branch of the full heap, with mc.second the index m of the maximum and
\* h the array after max_value = heap_array[m]
rotate_max_out(h, value, maxsize, m, overflowed) ==
    IF value < h.a[m]
    THEN IF maxsize > 1
         THEN Returns(Repair("sift_down", m,
                        sift_down(SwapIfNewMin(Store(h, m, value), value, m), m, maxsize - 1)),
                      <<overflowed, h.a[m]>>)
         ELSE Returns(Store(h, m, value), <<overflowed, h.a[m]>>)
    ELSE Returns(h, <<overflowed, value>>)

\* MaxIndex that takes the left child of the root for the maximum
MaxIndex_LeftOnly(h, maxsize) ==
    IF maxsize > 1 THEN [first |-> TRUE, second |-> left(0), rd |-> {}] ELSE NoChild

\* auto m = max_size > 1 ? max_child(heap_array, 0, max_size-1).second : 0
MaxIndex(h, maxsize) ==
    IF maxsize > 1 THEN max_child(h.a, 0, maxsize - 1) ELSE NoChild

\* heap_insert_circular that stores the value of a heap with room left
\* without bubble_up
heap_insert_circular_NoBubbleUp(h, value, maxsize) ==
    IF ~(h.count = maxsize)
    THEN Returns(Incremented(Store(h, h.count, value)), <<h.count = maxsize, DefaultValue>>)
    ELSE rotate_max_out(Rd(h, MaxIndex(h, maxsize).rd \cup {MaxIndex(h, maxsize).second}),
                        value, maxsize, MaxIndex(h, maxsize).second, h.count = maxsize)

heap_insert_circular(h, value, maxsize) ==
    IF ~(h.count = maxsize)
    THEN ThenReturns(heap_insert(h, value, maxsize), <<h.count = maxsize, DefaultValue>>)
    ELSE rotate_max_out(Rd(h, MaxIndex(h, maxsize).rd \cup {MaxIndex(h, maxsize).second}),
                        value, maxsize, MaxIndex(h, maxsize).second, h.count = maxsize)

\* BubbleUpIfParentSmaller that never looks at the parent
BubbleUpIfParentSmaller_Never(h, new_value, index) == h

\* if(has_parent(index) && heap_array[parent(index)] < new_value) bubble_up(heap_array, index)
BubbleUpIfParentSmaller(h, new_value, index) ==
    IF has_parent(index)
    THEN IF h.a[parent(index)] < new_value
         THEN Repair("bubble_up", index, bubble_up(Rd(h, {parent(index)}), index))
         ELSE Rd(h, {parent(index)})
    ELSE h

\* if(has_parent(index) && new_value < heap_array[parent(index)]) bubble_up(heap_array, index)
BubbleUpIfParentLarger(h, new_value, index) ==
    IF has_parent(index)
    THEN IF new_value < h.a[parent(index)]
         THEN Repair("bubble_up", index, bubble_up(Rd(h, {parent(index)}), index))
         ELSE Rd(h, {parent(index)})
    ELSE h

\* restore_at_index that takes every index for one of a min level
restore_at_index_MinOnly(h, old_value, new_value, index, right_index) ==
    IF new_value < old_value
    THEN Repair("bubble_up_min", index, bubble_up_min(h, index))
    ELSE Repair("sift_down", index,
                sift_down(BubbleUpIfParentSmaller(h, new_value, index), index, right_index))

\* the repair after heap_array[index] = new_value
restore_at_index(h, old_value, new_value, index, right_index) ==
    IF min_level(index)
    THEN IF new_value < old_value
         THEN Repair("bubble_up_min", index, bubble_up_min(h, index))
         ELSE Repair("sift_down", index,
                     sift_down(BubbleUpIfParentSmaller(h, new_value, index), index, right_index))
    ELSE IF old_value < new_value
         THEN Repair("bubble_up_max", index, bubble_up_max(h, index))
         ELSE Repair("sift_down", index,
                     sift_down(BubbleUpIfParentLarger(h, new_value, index), index, right_index))

heap_replace_at_index(h, new_value, index) ==
    IF h.count = 0 THEN Throws(h, ErrReplaceEmpty)
    ELSE IF index > h.count THEN Throws(h, ErrIndexRange)
    ELSE Returns(restore_at_index(Store(Rd(h, {index}), index, new_value),
                                  h.a[index], new_value, index, h.count - 1),
                 h.a[index])

\* --count; return old_value
ThenDecrement(r) == IF r.err = ErrNone THEN Returns(Decremented(r.h), r.ret) ELSE r

\* heap_remove_at_index that forgets --count
heap_remove_at_index_KeepCount(h, index) ==
    IF h.count = 0 THEN Throws(h, ErrRemoveAtEmpty)
    ELSE IF index > h.count THEN Throws(h, ErrIndexRange)
    ELSE heap_replace_at_index(Rd(h, {h.count - 1}), h.a[h.count - 1], index)

\* heap_remove_at_index that moves the root, not the last value, into the hole
heap_remove_at_index_MovesRoot(h, index) ==
    IF h.count = 0 THEN Throws(h, ErrRemoveAtEmpty)
    ELSE IF index > h.count THEN Throws(h, ErrIndexRange)
    ELSE ThenDecrement(heap_replace_at_index(Rd(h, {0}), h.a[0], index))

heap_remove_at_index(h, index) ==
    IF h.count = 0 THEN Throws(h, ErrRemoveAtEmpty)
    ELSE IF index > h.count THEN Throws(h, ErrIndexRange)
    ELSE ThenDecrement(
             heap_replace_at_index(Rd(h, {h.count - 1}), h.a[h.count - 1], index))

\* SiftRoot without the test for the heap that became empty
SiftRoot_Always(h) == Repair("sift_down", 0, sift_down(h, 0, h.count - 1))

\* if(count > 0){ sift_down(heap_array, 0, count-1); }
SiftRoot(h) ==
    IF h.count > 0 THEN Repair("sift_down", 0, sift_down(h, 0, h.count - 1)) ELSE h

\* heap_remove_min without the sift_down
heap_remove_min_NoSift(h) ==
    IF h.count = 0 THEN Throws(h, ErrRemoveEmpty)
    ELSE Returns(Decremented(Swap(Rd(h, {0}), 0, h.count - 1)), h.a[0])

heap_remove_min(h) ==
    IF h.count = 0 THEN Throws(h, ErrRemoveEmpty)
    ELSE Returns(SiftRoot(Decremented(Swap(Rd(h, {0}), 0, h.count - 1))), h.a[0])

\* heap_remove_max after m = max_child(heap_array, 0, count-1)
remove_max_at(h, m) ==
    IF m.first
    THEN ThenReturns(heap_remove_at_index(Rd(h, {0} \cup m.rd \cup {m.second}), m.second),
                     h.a[m.second])
    ELSE ThenReturns(heap_remove_at_index(Rd(h, {0} \cup m.rd), 0), h.a[0])

heap_remove_max(h) ==
    IF h.count = 0 THEN Throws(h, ErrRemoveEmpty)
    ELSE remove_max_at(h, max_child(h.a, 0, h.count - 1))

\* InOrder without the tests for equality
InOrder_Strict(h, sub_root, x) ==
    IF min_level(sub_root)
    THEN (~x.first) \/ h.a[sub_root] < h.a[x.second]
    ELSE (~x.first) \/ h.a[x.second] < h.a[sub_root]

\* value <= array[x.second] on a min level, array[x.second] <= value on a max level
InOrder(h, sub_root, x) ==
    IF min_level(sub_root)
    THEN (~x.first) \/ h.a[sub_root] < h.a[x.second] \/ h.a[sub_root] = h.a[x.second]
    ELSE (~x.first) \/ h.a[x.second] < h.a[sub_root] \/ h.a[x.second] = h.a[sub_root]

\* the while loop of is_heap at index i, x the extremal child or grandchild of parent(i)
RECURSIVE is_heap_loop(_, _)
RECURSIVE is_heap_body(_, _, _)
is_heap_body(h, i, x) ==
    IF InOrder(h, parent(i), x)
    THEN is_heap_loop(Rd(h, {parent(i)} \cup x.rd \cup (IF x.first THEN {x.second} ELSE {})),
                      i - 1)
    ELSE Returns(Rd(h, {parent(i)} \cup x.rd \cup (IF x.first THEN {x.second} ELSE {})),
                 FALSE)

is_heap_loop(h, i) ==
    IF has_parent(i)
    THEN is_heap_body(h, i,
                      IF min_level(parent(i))
                      THEN min_child_or_gchild(h.a, parent(i), h.count - 1)
                      ELSE max_child_or_gchild(h.a, parent(i), h.count - 1))
    ELSE Returns(h, TRUE)

is_heap(h) ==
    IF h.count > 1 THEN is_heap_loop(h, h.count - 1) ELSE Returns(h, TRUE)

\* ------------------------------------------------------------------ state
VARIABLES
    heap_array,   \* the occupied slots: a function on 0..count-1
    count,        \* the caller's count
    max_size,     \* the caller's allocation size, passed as max_size
    op,           \* the last call
    arg,          \* its arguments
    ret,          \* the value it returned
    err,          \* the exception it threw
    rd,           \* the slots it read
    wr,           \* the slots it wrote
    oob,          \* it read a slot at an index >= count
    mode,         \* round trip: "fill", then "drain_min" or "drain_max"
    inserted,     \* round trip: how often each value was inserted
    removed,      \* round trip: the values removed, in order
    repairs,      \* the repair primitives the call invoked, in order
    touched       \* it accessed the array after the last of them returned

vars == <<heap_array, count, max_size, op, arg, ret, err, rd, wr, oob,
          mode, inserted, removed, repairs, touched>>

\* the round-trip history
hist == <<mode, inserted, removed>>

\* the caller's storage as a call finds it: g in every slot behind the heap
Fill(a, n, g) == [i \in Slots |-> IF i < n THEN a[i] ELSE g]
Occupied(a, n) == [i \in 0..(n - 1) |-> a[i]]

\* the storage a of n values as a call finds it, with nothing accessed yet
Fresh(a, n) ==
    [a |-> a, count |-> n, rd |-> {}, wr |-> {}, oob |-> FALSE,
     repairs |-> << >>, touched |-> FALSE]

Mem(g) == Fresh(Fill(heap_array, count, g), count)

Args(v, i) == [value |-> v, index |-> i]

\* the caller is between two calls
Idle == op \in {"init", "idle"}

\* the call name with arguments args gives r
Effect(name, args, r) ==
    /\ heap_array' = Occupied(r.h.a, r.h.count)
    /\ count' = r.h.count
    /\ op' = name
    /\ arg' = args
    /\ ret' = r.ret
    /\ err' = r.err
    /\ rd' = r.h.rd
    /\ wr' = r.h.wr
    /\ oob' = r.h.oob
    /\ repairs' = r.h.repairs
    /\ touched' = r.h.touched
    /\ UNCHANGED max_size

\* the caller, between two calls, makes the call
Call(name, args, r) ==
    /\ Idle
    /\ Effect(name, args, r)
    /\ UNCHANGED hist

ZeroBag == [v \in Vals |-> 0]

Start ==
    /\ max_size \in 0..MaxCap
    /\ count = 0
    /\ heap_array = << >>
    /\ op = "init"
    /\ arg = Args(NoValue, NoValue)
    /\ ret = NoValue
    /\ err = ErrNone
    /\ rd = {}
    /\ wr = {}
    /\ oob = FALSE
    /\ repairs = << >>
    /\ touched = FALSE
    /\ inserted = ZeroBag
    /\ removed = << >>

Init == Start /\ mode = "off"

\* construction: the caller fills size slots with data and calls make_heap
MakeHeap ==
    /\ op = "init"
    /\ \E size \in 0..max_size, g \in Vals :
         \E data \in [0..(size - 1) -> Vals] :
            Call("make_heap", [value |-> NoValue, index |-> NoValue, data |-> data],
                 make_heap(Fresh(Fill(data, size, g), size), size))

HeapInsert ==
    \E value \in Vals, g \in Vals :
        Call("heap_insert", Args(value, NoValue), heap_insert(Mem(g), value, max_size))

HeapMax == \E g \in Vals : Call("heap_max", Args(NoValue, NoValue), heap_max(Mem(g)))

HeapMin == \E g \in Vals : Call("heap_min", Args(NoValue, NoValue), heap_min(Mem(g)))

HeapInsertCircular ==
    \E value \in Vals, g \in Vals :
        Call("heap_insert_circular", Args(value, NoValue),
             heap_insert_circular(Mem(g), value, max_size))

\* the indices of the occupied slots, and one that is beyond count
InRange == 0..(count - 1)
Beyond == {count + 1}

\* index == count passes the range check although no value is stored there
AtCount == IF count > 0 THEN {count} ELSE {}

ReplaceAt(I) ==
    \E new_value \in Vals, index \in I, g \in Vals :
        Call("heap_replace_at_index", Args(new_value, index),
             heap_replace_at_index(Mem(g), new_value, index))

RemoveAt(I) ==
    \E index \in I, g \in Vals :
        Call("heap_remove_at_index", Args(NoValue, index),
             heap_remove_at_index(Mem(g), index))

HeapReplaceAtIndex == ReplaceAt(InRange \cup Beyond)

HeapRemoveAtIndex == RemoveAt(InRange \cup Beyond)

HeapRemoveMin ==
    \E g \in Vals : Call("heap_remove_min", Args(NoValue, NoValue), heap_remove_min(Mem(g)))

HeapRemoveMax ==
    \E g \in Vals : Call("heap_remove_max", Args(NoValue, NoValue), heap_remove_max(Mem(g)))

IsHeap == \E g \in Vals : Call("is_heap", Args(NoValue, NoValue), is_heap(Mem(g)))

\* the last call was given an index that holds no value, and did not throw
Misused ==
    \/ op = "heap_replace_at_index" /\ err = ErrNone /\ arg.index >= count
    \/ op = "heap_remove_at_index" /\ err = ErrNone /\ arg.index >= count + 1

\* the caller takes the result and goes on to its next call; a run is followed
\* up to the first call that stored through an index that holds no value
Resume ==
    /\ ~Idle
    /\ ~Misused
    /\ op' = "idle"
    /\ arg' = Args(NoValue, NoValue)
    /\ ret' = NoValue
    /\ err' = ErrNone
    /\ rd' = {}
    /\ wr' = {}
    /\ oob' = FALSE
    /\ repairs' = << >>
    /\ touched' = FALSE
    /\ UNCHANGED <<heap_array, count, max_size>>
    /\ UNCHANGED hist

\* the calls within the documented contract, and the calls that throw
Next ==
    \/ MakeHeap
    \/ HeapInsert
    \/ HeapMax
    \/ HeapMin
    \/ HeapInsertCircular
    \/ HeapReplaceAtIndex
    \/ HeapRemoveAtIndex
    \/ HeapRemoveMin
    \/ HeapRemoveMax
    \/ IsHeap
    \/ Resume

Spec == Init /\ [][Next]_vars

\* index == count as well
HeapReplaceAtCount == ReplaceAt(AtCount)

HeapRemoveAtCount == RemoveAt(AtCount)

NextAny ==
    \/ Next
    \/ HeapReplaceAtCount
    \/ HeapRemoveAtCount

SpecAny == Init /\ [][NextAny]_vars

\* ------------------------------------------------- reference definitions
RECURSIVE Depth(_)
Depth(i) == IF i = 0 THEN 0 ELSE 1 + Depth((i - 1) \div 2)

\* index i is on an even level of the tree
OnMinLevel(i) == Depth(i) % 2 = 0

\* j is below i in the tree
RECURSIVE IsDescendant(_, _)
IsDescendant(j, i) ==
    /\ j > i
    /\ \/ (j - 1) \div 2 = i
       \/ IsDescendant((j - 1) \div 2, i)

\* the min-max heap invariant over a[0..n)
MinMaxHeap(a, n) ==
    \A i \in 0..(n - 1) : \A j \in 0..(n - 1) :
        IsDescendant(j, i) =>
            IF OnMinLevel(i) THEN a[i] <= a[j] ELSE a[i] >= a[j]

\* how often each value occurs in a[0..n)
BagOf(a, n) == [v \in Vals |-> Cardinality({i \in 0..(n - 1) : a[i] = v})]
BagPlus(b, v) == [b EXCEPT ![v] = @ + 1]

MinOf(a, n) == CHOOSE v \in {a[i] : i \in 0..(n - 1)} : \A i \in 0..(n - 1) : v <= a[i]
MaxOf(a, n) == CHOOSE v \in {a[i] : i \in 0..(n - 1)} : \A i \in 0..(n - 1) : v >= a[i]

\* ------------------------------------------------------------ round trip
\* the caller inserts n values into an empty heap, then removes the minimum
\* n times, or the maximum n times
StartRoundTrip == Start /\ mode = "fill"

RoundTripInsert ==
    /\ mode = "fill"
    /\ count < max_size
    /\ \E value \in Vals, g \in Vals :
          /\ Effect("heap_insert", Args(value, NoValue), heap_insert(Mem(g), value, max_size))
          /\ inserted' = BagPlus(inserted, value)
    /\ UNCHANGED <<mode, removed>>

RoundTripRemoveMin ==
    /\ mode \in {"fill", "drain_min"}
    /\ count > 0
    /\ \E g \in Vals :
          Effect("heap_remove_min", Args(NoValue, NoValue), heap_remove_min(Mem(g)))
    /\ mode' = "drain_min"
    /\ removed' = Append(removed, ret')
    /\ UNCHANGED inserted

RoundTripRemoveMax ==
    /\ mode \in {"fill", "drain_max"}
    /\ count > 0
    /\ \E g \in Vals :
          Effect("heap_remove_max", Args(NoValue, NoValue), heap_remove_max(Mem(g)))
    /\ mode' = "drain_max"
    /\ removed' = Append(removed, ret')
    /\ UNCHANGED inserted

NextRoundTrip ==
    \/ RoundTripInsert
    \/ RoundTripRemoveMin
    \/ RoundTripRemoveMax

SpecRoundTrip == StartRoundTrip /\ [][NextRoundTrip]_vars

\* --------------------------------------------------------------- claims

\* C1: from an empty heap or a make_heap result, after every call of any
\* sequence of calls within the contract, the occupied range is a min-max
\* heap and is_heap(array, count) returns true.
C1_InvariantPreserved ==
    (op # "init" \/ count = 0) =>
        /\ MinMaxHeap(heap_array, count)
        /\ \A g \in Vals : is_heap(Mem(g)).ret = TRUE

C1_Witness ==
    /\ op = "heap_remove_at_index"
    /\ err = ErrNone
    /\ count = MaxCap - 1
    /\ arg.index = 1
    /\ Cardinality(wr) >= 2

\* C2: with count >= 1, heap_min returns the smallest and heap_max the largest
\* occupied value; the minimum is at index 0, the maximum at index 1 or 2
\* (the one not smaller than the other) when count >= 2, at index 0 when
\* count = 1.
C2_MinMaxCorrect ==
    count >= 1 =>
        /\ \A g \in Vals :
              /\ heap_min(Mem(g)).ret = MinOf(heap_array, count)
              /\ heap_max(Mem(g)).ret = MaxOf(heap_array, count)
        /\ heap_array[0] = MinOf(heap_array, count)
        /\ count = 1 => heap_array[0] = MaxOf(heap_array, count)
        /\ count = 2 => heap_array[1] = MaxOf(heap_array, count)
        /\ count >= 3 =>
              MaxOf(heap_array, count) =
                  IF heap_array[1] >= heap_array[2] THEN heap_array[1] ELSE heap_array[2]
        /\ op = "heap_min" => ret = MinOf(heap_array, count)
        /\ op = "heap_max" => ret = MaxOf(heap_array, count)

C2_Witness ==
    /\ op = "heap_max"
    /\ count >= 3
    /\ ret = heap_array[2]
    /\ heap_array[1] < heap_array[2]
    /\ heap_array[0] < heap_array[1]

\* C3: for every input array and size, is_heap returns true after make_heap;
\* for size <= 1 make_heap changes nothing.
C3_MakeHeapIsHeap ==
    op = "make_heap" =>
        /\ err = ErrNone
        /\ DOMAIN arg.data = 0..(count - 1)
        /\ \A g \in Vals : is_heap(Mem(g)).ret = TRUE
        /\ MinMaxHeap(heap_array, count)
        /\ count <= 1 => (heap_array = arg.data /\ wr = {})

C3_Witness ==
    /\ op = "make_heap"
    /\ count = MaxCap
    /\ \A i \in 1..(count - 1) : arg.data[i - 1] >= arg.data[i]
    /\ arg.data[0] > arg.data[count - 1]
    /\ heap_array # arg.data

\* C4: on a heap with count >= 1, heap_remove_min returns the minimum and
\* heap_remove_max the maximum; one occurrence of the returned value leaves
\* the occupied values, and the rest is a min-max heap.
C4_Step ==
    (op' \in {"heap_remove_min", "heap_remove_max"} /\ count >= 1) =>
        /\ err' = ErrNone
        /\ ret' = IF op' = "heap_remove_min"
                  THEN MinOf(heap_array, count) ELSE MaxOf(heap_array, count)
        /\ count' = count - 1
        /\ BagPlus(BagOf(heap_array', count'), ret') = BagOf(heap_array, count)
        /\ MinMaxHeap(heap_array', count')

C4_RemoveMinMax == [][C4_Step]_vars

C4_Witness ==
    /\ op = "heap_remove_max"
    /\ err = ErrNone
    /\ count = MaxCap - 1
    /\ Cardinality(wr) >= 2
    /\ ret > heap_array[0]

\* C6: a successful heap_insert adds exactly 1 to count, a heap_insert that
\* throws leaves count as it is, every successful heap_remove_min,
\* heap_remove_max and heap_remove_at_index takes exactly 1 from count, and
\* count <= max_size in every state.
C6_Step ==
    /\ (op' = "heap_insert" /\ err' = ErrNone) => count' = count + 1
    /\ (op' = "heap_insert" /\ err' = ErrInsertFull) => count' = count
    /\ (op' \in {"heap_remove_min", "heap_remove_max", "heap_remove_at_index"}
           /\ err' = ErrNone) => count' = count - 1
    /\ count <= max_size
    /\ count' <= max_size'

C6_CountAccounting == [][C6_Step]_vars

C6_Witness ==
    /\ op = "heap_insert"
    /\ err = ErrNone
    /\ count = max_size
    /\ count = MaxCap

\* C7: heap_insert with count == max_size throws the capacity error and
\* leaves the array and count as they were.
C7_Step ==
    (op' = "heap_insert" /\ count = max_size) =>
        /\ err' = ErrInsertFull
        /\ heap_array' = heap_array
        /\ count' = count
        /\ wr' = {}

C7_InsertFullFails == [][C7_Step]_vars

C7_Witness ==
    /\ op = "heap_insert"
    /\ err = ErrInsertFull
    /\ count = max_size
    /\ count >= 3

\* C8: with count == 0, heap_min, heap_max, heap_remove_min, heap_remove_max,
\* heap_replace_at_index and heap_remove_at_index throw their empty-heap
\* error, read and write no slot and leave count at 0.
EmptyError ==
    [n \in {"heap_min", "heap_max", "heap_remove_min", "heap_remove_max",
            "heap_replace_at_index", "heap_remove_at_index"} |->
        CASE n = "heap_min" -> ErrMinEmpty
          [] n = "heap_max" -> ErrMaxEmpty
          [] n = "heap_replace_at_index" -> ErrReplaceEmpty
          [] n = "heap_remove_at_index" -> ErrRemoveAtEmpty
          [] OTHER -> ErrRemoveEmpty]

C8_Step ==
    (count = 0 /\ op' \in DOMAIN EmptyError) =>
        /\ err' = EmptyError[op']
        /\ rd' = {}
        /\ wr' = {}
        /\ count' = 0
        /\ heap_array' = heap_array

C8_EmptyHeapFails == [][C8_Step]_vars

C8_Witness ==
    /\ op = "heap_replace_at_index"
    /\ err = ErrReplaceEmpty
    /\ count = 0
    /\ max_size >= 1

\* C9: heap_replace_at_index and heap_remove_at_index throw the range error
\* for every index >= count, index == count included, and leave the array and
\* count as they were.
C9_Step ==
    (op' \in {"heap_replace_at_index", "heap_remove_at_index"}
        /\ count > 0 /\ arg'.index >= count) =>
        /\ err' = ErrIndexRange
        /\ heap_array' = heap_array
        /\ count' = count

C9_IndexAtCountRejected == [][C9_Step]_vars

\* C10: no call that returns without an exception reads a slot at an index
\* >= the count at the moment of the read.
C10_NoReadBeyondCount == err = ErrNone => ~oob

\* C5: n values inserted into an empty heap come back from n calls of
\* heap_remove_min in non-decreasing order, from n calls of heap_remove_max in
\* non-increasing order; the values returned are the values inserted, and
\* count ends at 0.
BagSize(b) == LET S[k \in -1..MaxVal] == IF k = -1 THEN 0 ELSE b[k] + S[k - 1] IN S[MaxVal]
BagOfSeq(q) == [v \in Vals |-> Cardinality({k \in 1..Len(q) : q[k] = v})]

C5_RoundTrip ==
    /\ mode = "drain_min" => \A k \in 1..(Len(removed) - 1) : removed[k] <= removed[k + 1]
    /\ mode = "drain_max" => \A k \in 1..(Len(removed) - 1) : removed[k] >= removed[k + 1]
    /\ err = ErrNone
    /\ Len(removed) + count = BagSize(inserted)
    /\ Len(removed) = BagSize(inserted) =>
          (count = 0 /\ BagOfSeq(removed) = inserted)

C5_Witness ==
    /\ mode = "drain_max"
    /\ count = 0
    /\ Len(removed) = MaxCap
    /\ removed[1] > removed[4]
    /\ removed[4] > removed[MaxCap]

\* ---------------------------------------------------------- circular run
\* the caller keeps the max_size smallest values of a stream: every value goes
\* through heap_insert_circular, on a heap that starts empty
MaxCalls == MaxCap + 2

StartCircular == Start /\ mode = "circular"

CircularInsert ==
    /\ mode = "circular"
    /\ BagSize(inserted) < MaxCalls
    /\ \E value \in Vals, g \in Vals :
          /\ Effect("heap_insert_circular", Args(value, NoValue),
                    heap_insert_circular(Mem(g), value, max_size))
          /\ inserted' = BagPlus(inserted, value)
    /\ UNCHANGED <<mode, removed>>

NextCircular == CircularInsert

SpecCircular == StartCircular /\ [][NextCircular]_vars

\* how many values of b are below v
BagBelow(b, v) ==
    LET S[k \in -1..MaxVal] == IF k = -1 THEN 0
                               ELSE (IF k < v THEN b[k] ELSE 0) + S[k - 1]
    IN  S[MaxVal]

\* the n smallest values of b
SmallestOf(b, n) ==
    [v \in Vals |->
        IF n - BagBelow(b, v) <= 0 THEN 0
        ELSE IF n - BagBelow(b, v) < b[v] THEN n - BagBelow(b, v) ELSE b[v]]

\* C11: after any sequence of heap_insert_circular calls with a fixed max_size
\* on a heap that starts empty, count never exceeds max_size and the occupied
\* values are the min(max_size, number of calls) smallest values passed so far.
C11_CircularKeepsSmallest ==
    /\ count <= max_size
    /\ count = IF BagSize(inserted) < max_size THEN BagSize(inserted) ELSE max_size
    /\ BagOf(heap_array, count) = SmallestOf(inserted, count)

C11_Witness ==
    /\ mode = "circular"
    /\ max_size = 3
    /\ count = 3
    /\ BagSize(inserted) >= 6
    /\ inserted[MaxVal] >= 2
    /\ ret[1] = TRUE
    /\ ret[2] > arg.value
    /\ heap_array[1] = heap_array[0]

\* the last step is a heap_insert_circular call on a full heap of at least
\* one value
CircularOnFull ==
    /\ op' = "heap_insert_circular"
    /\ count = max_size
    /\ count >= 1

\* C12: heap_insert_circular on a full heap (count == max_size >= 1) with a
\* value strictly smaller than the maximum returns (true, old maximum), leaves
\* count as it is, puts the value in the place of one occurrence of the old
\* maximum and leaves a min-max heap.
C12_Step ==
    (CircularOnFull /\ arg'.value < MaxOf(heap_array, count)) =>
        /\ err' = ErrNone
        /\ ret' = <<TRUE, MaxOf(heap_array, count)>>
        /\ count' = count
        /\ BagPlus(BagOf(heap_array', count'), MaxOf(heap_array, count))
              = BagPlus(BagOf(heap_array, count), arg'.value)
        /\ MinMaxHeap(heap_array', count')

C12_CircularReplacesMax == [][C12_Step]_vars

C12_Witness ==
    /\ op = "heap_insert_circular"
    /\ count = MaxCap
    /\ ret[1] = TRUE
    /\ arg.value < ret[2]
    /\ heap_array[0] = arg.value
    /\ \A i \in 1..(count - 1) : heap_array[i] > arg.value
    /\ Cardinality(wr) >= 3

\* C13: heap_insert_circular on a full heap of at least one value with a value
\* that is not strictly smaller than the maximum writes no slot, leaves the
\* array and count as they were and returns (true, value).
C13_Step ==
    (CircularOnFull /\ arg'.value >= MaxOf(heap_array, count)) =>
        /\ err' = ErrNone
        /\ ret' = <<TRUE, arg'.value>>
        /\ count' = count
        /\ heap_array' = heap_array
        /\ wr' = {}

C13_CircularRejects == [][C13_Step]_vars

C13_Witness ==
    /\ op = "heap_insert_circular"
    /\ count = max_size
    /\ count >= 3
    /\ ret = <<TRUE, arg.value>>
    /\ arg.value = heap_array[1]
    /\ heap_array[2] < heap_array[1]
    /\ wr = {}

\* C14 as claimed: whenever heap_insert_circular reports overflow, the second
\* element of the pair is the maximum the heap had before the call.
C14_OriginalStep ==
    (op' = "heap_insert_circular" /\ ret'[1] = TRUE /\ count >= 1) =>
        ret'[2] = MaxOf(heap_array, count)

C14_AmendedStep ==
    (op' = "heap_insert_circular" /\ ret'[1] = TRUE /\ count >= 1) =>
        ret'[2] = IF arg'.value < MaxOf(heap_array, count)
                  THEN MaxOf(heap_array, count) ELSE arg'.value

C15_Step ==
    (op' = "heap_insert_circular" /\ count < max_size) =>
        /\ err' = ErrNone
        /\ ret' = <<FALSE, DefaultValue>>
        /\ \A g \in Vals :
              /\ heap_insert(Mem(g), arg'.value, max_size).err = ErrNone
              /\ count' = heap_insert(Mem(g), arg'.value, max_size).h.count
              /\ heap_array' = Occupied(heap_insert(Mem(g), arg'.value, max_size).h.a, count')

C15_CircularAsInsert == [][C15_Step]_vars

C15_Witness ==
    /\ op = "heap_insert_circular"
    /\ ret = <<FALSE, DefaultValue>>
    /\ count = MaxCap
    /\ Cardinality(wr) >= 3
    /\ heap_array[0] = arg.value

\* C16: heap_replace_at_index on a min-max heap, for every index in
\* [0, count) and every new value, returns the value stored at the index,
\* leaves count as it is and leaves a min-max heap that holds the new value in
\* the place of one occurrence of the old one.
C16_Step ==
    (op' = "heap_replace_at_index" /\ arg'.index \in 0..(count - 1)) =>
        /\ err' = ErrNone
        /\ ret' = heap_array[arg'.index]
        /\ count' = count
        /\ BagPlus(BagOf(heap_array', count'), heap_array[arg'.index])
              = BagPlus(BagOf(heap_array, count), arg'.value)
        /\ MinMaxHeap(heap_array', count')

C16_ReplaceAtIndex == [][C16_Step]_vars

C16_Witness ==
    /\ op = "heap_replace_at_index"
    /\ err = ErrNone
    /\ count = MaxCap
    /\ arg.index = 1
    /\ arg.value < ret
    /\ heap_array[0] = arg.value
    /\ heap_array[1] > arg.value
    /\ Cardinality(wr) >= 3

\* C17: heap_remove_at_index on a min-max heap, for every index in [0, count),
\* returns the value stored at the index, takes 1 from count and leaves a
\* min-max heap that holds the former values less one occurrence of the
\* returned one.
C17_Step ==
    (op' = "heap_remove_at_index" /\ arg'.index \in 0..(count - 1)) =>
        /\ err' = ErrNone
        /\ ret' = heap_array[arg'.index]
        /\ count' = count - 1
        /\ BagPlus(BagOf(heap_array', count'), ret') = BagOf(heap_array, count)
        /\ MinMaxHeap(heap_array', count')

C17_RemoveAtIndex == [][C17_Step]_vars

\* the last value went into the hole and from there up, past the parent of
\* the hole
C17_Witness ==
    /\ op = "heap_remove_at_index"
    /\ err = ErrNone
    /\ count = MaxCap - 1
    /\ arg.index >= 3
    /\ parent(arg.index) \in wr
    /\ heap_array[parent(arg.index)] > ret

\* ------------------------------------------------------------ validation
\* the caller hands any array and any count to is_heap
StartValidate ==
    /\ max_size = MaxCap
    /\ count \in 0..MaxCap
    /\ heap_array \in [0..(count - 1) -> Vals]
    /\ op = "init"
    /\ arg = Args(NoValue, NoValue)
    /\ ret = NoValue
    /\ err = ErrNone
    /\ rd = {}
    /\ wr = {}
    /\ oob = FALSE
    /\ repairs = << >>
    /\ touched = FALSE
    /\ mode = "validate"
    /\ inserted = ZeroBag
    /\ removed = << >>

ValidateIsHeap ==
    /\ mode = "validate"
    /\ op = "init"
    /\ \E g \in Vals : Effect("is_heap", Args(NoValue, NoValue), is_heap(Mem(g)))
    /\ UNCHANGED hist

NextValidate == ValidateIsHeap

SpecValidate == StartValidate /\ [][NextValidate]_vars

\* C18: for every array and every count, is_heap returns true exactly when
\* every index of a min level in [0, count) holds a value <= all its
\* descendants in [0, count) and every index of a max level a value >= all its
\* descendants; it returns true for count <= 1.
C18_IsHeapExact ==
    op = "is_heap" =>
        /\ err = ErrNone
        /\ ret = MinMaxHeap(heap_array, count)
        /\ count <= 1 => ret = TRUE

\* the children of the root are in order, a grandchild of index 1 is not
C18_Witness ==
    /\ op = "is_heap"
    /\ count = MaxCap
    /\ ret = FALSE
    /\ \A i \in 1..(count - 1) : heap_array[0] <= heap_array[i]
    /\ \A i \in {3, 4} : heap_array[i] <= heap_array[1]
    /\ \A i \in {5, 6} : heap_array[i] <= heap_array[2]
    /\ heap_array[7] > heap_array[1]
    /\ heap_array[7] >= heap_array[3]

\* C19: heap_min, heap_max and is_heap write no slot and leave the array and
\* count as they were, whether they return or throw; heap_replace_at_index
\* leaves count as it was.
C19_Step ==
    /\ op' \in {"heap_min", "heap_max", "is_heap"} =>
          /\ wr' = {}
          /\ heap_array' = heap_array
          /\ count' = count
    /\ op' = "heap_replace_at_index" => count' = count

C19_ReadOnly == [][C19_Step]_vars

C19_Witness ==
    /\ op = "heap_max"
    /\ err = ErrNone
    /\ count = MaxCap
    /\ rd = {1, 2}
    /\ wr = {}
    /\ ret = heap_array[2]
    /\ ret > heap_array[1]

\* the public operations that write the array
MutatingOps ==
    {"heap_insert", "heap_remove_min", "heap_remove_max", "heap_insert_circular",
     "heap_replace_at_index", "heap_remove_at_index"}

\* sift_down once for each index from parent(size - 1) down to 0
SiftDownEachParent(size) ==
    IF size > 1
    THEN [k \in 1..(parent(size - 1) + 1) |->
             [name |-> "sift_down", index |-> parent(size - 1) + 1 - k]]
    ELSE << >>

\* C20 as claimed: every successful call of a mutating operation invokes
\* exactly one repair primitive, and that invocation is the last step that
\* touches the array; make_heap invokes sift_down exactly once for each index
\* from parent(size - 1) down to 0. Stated for max_size >= 1, where every call
\* stays inside the caller's storage.
C20_OriginalStep ==
    /\ (op' \in MutatingOps /\ err' = ErrNone /\ max_size >= 1) =>
          (Len(repairs') = 1 /\ ~touched')
    /\ op' = "make_heap" => repairs' = SiftDownEachParent(count')

C20_ExactlyOneRepair == [][C20_OriginalStep]_vars

\* C20 as amended: a successful heap_insert invokes bubble_up once;
\* heap_remove_min invokes sift_down once, unless it empties the heap;
\* heap_insert_circular invokes bubble_up once on a heap with room, sift_down
\* once when it replaces the maximum of a full heap of max_size > 1, and no
\* primitive when it rejects the value or max_size <= 1;
\* heap_replace_at_index, heap_remove_at_index and heap_remove_max invoke one
\* primitive, or bubble_up and then sift_down on the same index. The last
\* invocation is the last step that touches the array. make_heap invokes
\* sift_down exactly once for each index from parent(size - 1) down to 0, and
\* never for size <= 1.
C20_AmendedStep ==
    /\ (op' = "heap_insert" /\ err' = ErrNone) =>
          repairs' = << [name |-> "bubble_up", index |-> count] >>
    /\ (op' = "heap_remove_min" /\ err' = ErrNone) =>
          repairs' = IF count' > 0 THEN << [name |-> "sift_down", index |-> 0] >> ELSE << >>
    /\ (op' = "heap_insert_circular" /\ err' = ErrNone) =>
          IF count < max_size
          THEN repairs' = << [name |-> "bubble_up", index |-> count] >>
          ELSE IF max_size > 1 /\ arg'.value < MaxOf(heap_array, count)
               THEN Len(repairs') = 1 /\ repairs'[1].name = "sift_down"
               ELSE repairs' = << >>
    /\ (op' \in {"heap_replace_at_index", "heap_remove_at_index", "heap_remove_max"}
           /\ err' = ErrNone) =>
          /\ Len(repairs') \in {1, 2}
          /\ Len(repairs') = 2 =>
                /\ repairs'[1].name = "bubble_up"
                /\ repairs'[2].name = "sift_down"
                /\ repairs'[1].index = repairs'[2].index
    /\ (op' \in MutatingOps /\ err' = ErrNone /\ repairs' # << >>) => ~touched'
    /\ op' = "make_heap" => repairs' = SiftDownEachParent(count')

C20_RepairsInvoked == [][C20_AmendedStep]_vars

C20_Witness ==
    /\ op = "heap_remove_at_index"
    /\ err = ErrNone
    /\ count = MaxCap - 1
    /\ Len(repairs) = 2
    /\ repairs[1].name = "bubble_up"
    /\ repairs[2].name = "sift_down"
    /\ ~touched
    /\ parent(arg.index) \in wr

----------------------------------------------------------------------------
\* C21: heap_remove_at_index on a min-max heap with index = count - 1 only
\* takes 1 from count: every slot below count - 1 keeps its value, no two
\* slots are exchanged (the only slot written is the last one, which gets its
\* own value), and the value returned is the former last one.
C21_Step ==
    (op' = "heap_remove_at_index" /\ count >= 1 /\ arg'.index = count - 1) =>
        /\ err' = ErrNone
        /\ ret' = heap_array[count - 1]
        /\ count' = count - 1
        /\ heap_array' = Occupied(heap_array, count - 1)
        /\ wr' = {count - 1}

C21_RemoveLast == [][C21_Step]_vars

\* the last of a full heap of MaxCap values was removed, and it was neither
\* the smallest nor the largest of them
C21_Witness ==
    /\ op = "heap_remove_at_index"
    /\ err = ErrNone
    /\ arg.index = count
    /\ count = MaxCap - 1
    /\ heap_array[0] < ret
    /\ ret < heap_array[1]

----------------------------------------------------------------------------
\* The repair primitives and the lookups on arbitrary arrays: the caller holds
\* any array of up to MaxCap values, heap or not, and applies one primitive.
AnyArray(m) ==
    /\ max_size = MaxCap
    /\ count \in 0..MaxCap
    /\ heap_array \in [0..(count - 1) -> Vals]
    /\ op = "init"
    /\ arg = Args(NoValue, NoValue)
    /\ ret = NoValue
    /\ err = ErrNone
    /\ rd = {}
    /\ wr = {}
    /\ oob = FALSE
    /\ repairs = << >>
    /\ touched = FALSE
    /\ mode = m
    /\ inserted = ZeroBag
    /\ removed = << >>

\* the arguments of a primitive, with the array as it was given
PrimArgs(i, r) ==
    [value |-> NoValue, index |-> i, right_index |-> r, data |-> heap_array]

\* the right bounds tried: the last value, and the one before it
RightBounds == {r \in {count - 2, count - 1} : r >= 0}

SiftDown ==
    /\ mode = "sift_down"
    /\ op = "init"
    /\ \E sift_index \in 0..(count - 1), right_index \in RightBounds, g \in Vals :
          Effect("sift_down", PrimArgs(sift_index, right_index),
                 Returns(sift_down(Mem(g), sift_index, right_index), NoValue))
    /\ UNCHANGED hist

NextSiftDown == SiftDown

SpecSiftDown == AnyArray("sift_down") /\ [][NextSiftDown]_vars

\* i and the indices below it, up to r
Subtree(i, r) == {j \in 0..r : j = i \/ IsDescendant(j, i)}

\* the min-max heap invariant over the part of the subtree of i that is in a[0..r]
SubtreeHeap(a, i, r) ==
    \A j \in Subtree(i, r) : \A k \in Subtree(j, r) :
        k # j => IF OnMinLevel(j) THEN a[j] <= a[k] ELSE a[j] >= a[k]

\* how often each value occurs in the slots S of a
BagOn(a, S) == [v \in Vals |-> Cardinality({i \in S : a[i] = v})]

\* C22: sift_down(array, i, r) on an array in which the subtrees of the
\* children of i, up to r, are min-max heaps leaves the subtree of i, up to r,
\* a min-max heap; it permutes the values in the slots of that subtree and
\* neither writes nor changes a slot outside of it.
C22_SiftDownRepairs ==
    (/\ op = "sift_down"
     /\ \A c \in {left(arg.index), right(arg.index)} :
            c <= arg.right_index => SubtreeHeap(arg.data, c, arg.right_index)) =>
        /\ SubtreeHeap(heap_array, arg.index, arg.right_index)
        /\ BagOn(heap_array, Subtree(arg.index, arg.right_index))
               = BagOn(arg.data, Subtree(arg.index, arg.right_index))
        /\ \A j \in 0..(count - 1) :
               j \notin Subtree(arg.index, arg.right_index) => heap_array[j] = arg.data[j]
        /\ wr \subseteq Subtree(arg.index, arg.right_index)
        /\ DOMAIN heap_array = DOMAIN arg.data

\* a value sank from the root to a grandchild, whose former value then rose
\* past its parent, while the last slot, below that grandchild, was beyond the
\* bound and kept a smaller value
C22_Witness ==
    /\ op = "sift_down"
    /\ arg.index = 0
    /\ count = MaxCap
    /\ arg.right_index = count - 2
    /\ SubtreeHeap(arg.data, 1, arg.right_index)
    /\ SubtreeHeap(arg.data, 2, arg.right_index)
    /\ Cardinality(wr) = 3
    /\ parent(count - 1) \in wr
    /\ heap_array[count - 1] < heap_array[parent(count - 1)]

----------------------------------------------------------------------------
\* The lookups on arbitrary arrays.
\* the caller takes the pair that the lookup x returned
Lookup(name, i, right_index, g, x) ==
    Effect(name, PrimArgs(i, right_index),
           Returns(Rd(Mem(g), x.rd), <<x.first, x.second>>))

MinChild ==
    /\ mode = "lookup"
    /\ op = "init"
    /\ \E i \in 0..(count - 1), right_index \in RightBounds, g \in Vals :
          Lookup("min_child", i, right_index, g,
                 min_child(Fill(heap_array, count, g), i, right_index))
    /\ UNCHANGED hist

MinGchild ==
    /\ mode = "lookup"
    /\ op = "init"
    /\ \E i \in 0..(count - 1), right_index \in RightBounds, g \in Vals :
          Lookup("min_gchild", i, right_index, g,
                 min_gchild(Fill(heap_array, count, g), i, right_index))
    /\ UNCHANGED hist

MinChildOrGchild ==
    /\ mode = "lookup"
    /\ op = "init"
    /\ \E i \in 0..(count - 1), right_index \in RightBounds, g \in Vals :
          Lookup("min_child_or_gchild", i, right_index, g,
                 min_child_or_gchild(Fill(heap_array, count, g), i, right_index))
    /\ UNCHANGED hist

MaxChild ==
    /\ mode = "lookup"
    /\ op = "init"
    /\ \E i \in 0..(count - 1), right_index \in RightBounds, g \in Vals :
          Lookup("max_child", i, right_index, g,
                 max_child(Fill(heap_array, count, g), i, right_index))
    /\ UNCHANGED hist

MaxGchild ==
    /\ mode = "lookup"
    /\ op = "init"
    /\ \E i \in 0..(count - 1), right_index \in RightBounds, g \in Vals :
          Lookup("max_gchild", i, right_index, g,
                 max_gchild(Fill(heap_array, count, g), i, right_index))
    /\ UNCHANGED hist

MaxChildOrGchild ==
    /\ mode = "lookup"
    /\ op = "init"
    /\ \E i \in 0..(count - 1), right_index \in RightBounds, g \in Vals :
          Lookup("max_child_or_gchild", i, right_index, g,
                 max_child_or_gchild(Fill(heap_array, count, g), i, right_index))
    /\ UNCHANGED hist

NextLookup ==
    \/ MinChild
    \/ MinGchild
    \/ MinChildOrGchild
    \/ MaxChild
    \/ MaxGchild
    \/ MaxChildOrGchild

SpecLookup == AnyArray("lookup") /\ [][NextLookup]_vars

\* the children and the grandchildren of i, up to r
ChildrenOf(i, r) == {j \in 0..r : j = 2 * i + 1 \/ j = 2 * i + 2}
GchildrenOf(i, r) == {j \in 0..r : 4 * i + 3 <= j /\ j <= 4 * i + 6}

\* C23: min_child_or_gchild (max_child_or_gchild) reports that nothing exists
\* exactly when the left child of i is beyond r; otherwise it returns the
\* index, at most r, of a child or grandchild of i that holds the smallest
\* (largest) value of all children and grandchildren of i up to r. It reads
\* no slot beyond r.
C23_ChildOrGchild ==
    LET i == arg.index
        r == arg.right_index
        C == ChildrenOf(i, r) \cup GchildrenOf(i, r)
    IN  /\ op \in {"min_child_or_gchild", "max_child_or_gchild"} =>
            /\ ret[1] = ~(2 * i + 1 > r)
            /\ ret[1] => ret[2] \in C
            /\ rd \subseteq 0..r
        /\ (op = "min_child_or_gchild" /\ ret[1]) =>
               \A j \in C : arg.data[ret[2]] <= arg.data[j]
        /\ (op = "max_child_or_gchild" /\ ret[1]) =>
               \A j \in C : arg.data[ret[2]] >= arg.data[j]

\* the root has both children and all four grandchildren within the bound,
\* the last slot is beyond it, and the last grandchild alone is the smallest
C23_Witness ==
    /\ op = "min_child_or_gchild"
    /\ arg.index = 0
    /\ arg.right_index = 6
    /\ count = 8
    /\ ret = <<TRUE, 6>>
    /\ \A j \in 1..5 : arg.data[j] > arg.data[6]
    /\ arg.data[7] < arg.data[6]

\* the candidates of the lookup called, in the order it examines them
CandidatesOf(name, i, r) ==
    CASE name \in {"min_child", "max_child"} -> ChildrenOf(i, r)
      [] name \in {"min_gchild", "max_gchild"} -> GchildrenOf(i, r)
      [] OTHER -> ChildrenOf(i, r) \cup GchildrenOf(i, r)

MinLookups == {"min_child", "min_gchild", "min_child_or_gchild"}
MaxLookups == {"max_child", "max_gchild", "max_child_or_gchild"}

\* C24: of several candidates that hold the extremal value the lookups return
\* the one examined first, which is the one of least index (left child, right
\* child, then the grandchildren from left to right): no candidate before the
\* returned one is as small (min lookups) or as large (max lookups) as it is.
C24_FirstOfEqual ==
    LET C == CandidatesOf(op, arg.index, arg.right_index)
    IN  /\ (op \in MinLookups /\ ret[1]) =>
            /\ ret[2] \in C
            /\ \A j \in C : arg.data[ret[2]] <= arg.data[j]
            /\ \A j \in C : j < ret[2] => arg.data[ret[2]] < arg.data[j]
        /\ (op \in MaxLookups /\ ret[1]) =>
            /\ ret[2] \in C
            /\ \A j \in C : arg.data[ret[2]] >= arg.data[j]
            /\ \A j \in C : j < ret[2] => arg.data[ret[2]] > arg.data[j]

\* both children and a grandchild hold the largest value, and the left child
\* is returned
C24_Witness ==
    /\ op = "max_child_or_gchild"
    /\ arg.index = 0
    /\ ret = <<TRUE, 1>>
    /\ arg.right_index >= 6
    /\ arg.data[2] = arg.data[1]
    /\ arg.data[4] = arg.data[1]
    /\ arg.data[3] < arg.data[1]

----------------------------------------------------------------------------
\* C26: make_heap permutes its input: for every array and every size the
\* values in array[0..size) afterwards are those before, each as often, and no
\* slot at size or beyond is read or written; a heap_insert that succeeds
\* leaves the former values and one more occurrence of the inserted one.
C26_Step ==
    /\ op' = "make_heap" =>
          /\ count' = Cardinality(DOMAIN arg'.data)
          /\ BagOf(heap_array', count') = BagOf(arg'.data, count')
          /\ rd' \cup wr' \subseteq 0..(count' - 1)
    /\ (op' = "heap_insert" /\ err' = ErrNone) =>
          /\ count' = count + 1
          /\ BagOf(heap_array', count') = BagPlus(BagOf(heap_array, count), arg'.value)

C26_Permutes == [][C26_Step]_vars

\* make_heap moved values in an array of MaxCap values that holds every value
C26_Witness ==
    /\ op = "make_heap"
    /\ count = MaxCap
    /\ heap_array # arg.data
    /\ \A v \in Vals : \E i \in 0..(count - 1) : heap_array[i] = v
    /\ Cardinality(wr) >= 4

----------------------------------------------------------------------------
\* C27: heap_insert_circular neither reads nor writes a slot at an index
\* >= max_size, whatever max_size >= 0 and count <= max_size are; with
\* max_size = 0 and count = 0 it accesses no slot at all.
C27_CircularWithinMaxSize ==
    op = "heap_insert_circular" =>
        /\ rd \cup wr \subseteq 0..(max_size - 1)
        /\ (max_size = 0 /\ count = 0) => rd \cup wr = {}

----------------------------------------------------------------------------
\* log_2 and min_level on 64-bit words: the caller holds an index i with
\* i + 1 = x, where x is a power of two alone, with one more bit below it, or
\* with all bits below it.
WordBits == 64

\* the word with the bits S
ByteOfBits(S, j) ==
    LET f(b) == IF 8 * (j - 1) + b \in S THEN Pow2(b) ELSE 0
    IN  f(0) + f(1) + f(2) + f(3) + f(4) + f(5) + f(6) + f(7)
WordOfBits(S) ==
    << ByteOfBits(S, 1), ByteOfBits(S, 2), ByteOfBits(S, 3), ByteOfBits(S, 4),
       ByteOfBits(S, 5), ByteOfBits(S, 6), ByteOfBits(S, 7), ByteOfBits(S, 8) >>

Log2Inputs ==
    {WordOfBits({k}) : k \in 0..(WordBits - 1)}
        \cup {WordOfBits(0..k) : k \in 0..(WordBits - 1)}
        \cup {WordOfBits({j, k}) : j, k \in 0..(WordBits - 1)}
        \cup {ToWord(n) : n \in Log2Args}

StartLog2 ==
    /\ max_size = 0
    /\ count = 0
    /\ heap_array = << >>
    /\ op = "init"
    /\ \E x \in Log2Inputs :
          arg = [value |-> NoValue, index |-> Sub64(x, ToWord(1)), x |-> x]
    /\ ret = NoValue
    /\ err = ErrNone
    /\ rd = {}
    /\ wr = {}
    /\ oob = FALSE
    /\ repairs = << >>
    /\ touched = FALSE
    /\ mode = "log_2"
    /\ inserted = ZeroBag
    /\ removed = << >>

\* log_2(x)
Log2 ==
    /\ mode = "log_2"
    /\ op = "init"
    /\ op' = "log_2"
    /\ ret' = log_2_word(arg.x)
    /\ UNCHANGED <<heap_array, count, max_size, arg, err, rd, wr, oob, repairs, touched>>
    /\ UNCHANGED hist

\* min_level(i)
MinLevel ==
    /\ mode = "log_2"
    /\ op = "init"
    /\ op' = "min_level"
    /\ ret' = min_level_word(arg.index)
    /\ UNCHANGED <<heap_array, count, max_size, arg, err, rd, wr, oob, repairs, touched>>
    /\ UNCHANGED hist

NextLog2 == Log2 \/ MinLevel

SpecLog2 == StartLog2 /\ [][NextLog2]_vars

\* bit k of the word w is set
BitSet(w, k) == (w[(k \div 8) + 1] \div Pow2(k % 8)) % 2 = 1

\* floor(log2(w)): the position of the highest bit set
FloorLog2(w) ==
    CHOOSE k \in 0..(WordBits - 1) :
        BitSet(w, k) /\ \A m \in (k + 1)..(WordBits - 1) : ~BitSet(w, m)

\* the number of a word below 2^16
SmallNat(w) == w[1] + 256 * w[2]
IsSmall(w) == \A j \in 3..8 : w[j] = 0

\* C28: log_2(x) is floor(log2(x)) for every x >= 1, at and next to the powers
\* of two as well; min_level(i) is true for i = 0 and otherwise true exactly
\* when floor(log2(i + 1)) is even, which for the indices of a heap is when
\* the depth of i in the tree is even.
C28_MinLevelExact ==
    /\ op = "log_2" => ret = FloorLog2(arg.x)
    /\ op = "min_level" =>
          /\ ret = (FloorLog2(arg.x) % 2 = 0)
          /\ arg.index = ToWord(0) => ret = TRUE
          /\ (IsSmall(arg.x) /\ SmallNat(arg.x) \in Log2Args) =>
                /\ min_level(SmallNat(arg.x) - 1) = ret
                /\ OnMinLevel(SmallNat(arg.x) - 1) = ret

\* log_2 of 2^63 + 1, whose smearing needs all six steps
C28_Witness ==
    /\ op = "log_2"
    /\ arg.x = WordOfBits({0, WordBits - 1})
    /\ ret = WordBits - 1

----------------------------------------------------------------------------
\* bubble_up on arbitrary arrays.
BubbleUp ==
    /\ mode = "bubble_up"
    /\ op = "init"
    /\ \E bubble_index \in 0..(count - 1), g \in Vals :
          Effect("bubble_up", PrimArgs(bubble_index, NoValue),
                 Returns(bubble_up(Mem(g), bubble_index), NoValue))
    /\ UNCHANGED hist

NextBubbleUp == BubbleUp

SpecBubbleUp == AnyArray("bubble_up") /\ [][NextBubbleUp]_vars

\* k and the indices above it, up to the root
PathToRoot(k) == {j \in 0..k : j = k \/ IsDescendant(k, j)}

\* C29: bubble_up(array, k) permutes the values in the slots on the path
\* from k to the root and neither writes nor changes any other slot; when
\* array[0..k) was a min-max heap before the call, array[0..k] is one after it.
C29_BubbleUpRepairs ==
    op = "bubble_up" =>
        /\ DOMAIN heap_array = DOMAIN arg.data
        /\ \A j \in 0..(count - 1) :
               j \notin PathToRoot(arg.index) => heap_array[j] = arg.data[j]
        /\ wr \subseteq PathToRoot(arg.index)
        /\ BagOn(heap_array, PathToRoot(arg.index)) = BagOn(arg.data, PathToRoot(arg.index))
        /\ MinMaxHeap(arg.data, arg.index) => MinMaxHeap(heap_array, arg.index + 1)

\* the last of MaxCap values, put behind a min-max heap, rose past its parent
\* and on past the grandparent of that
C29_Witness ==
    /\ op = "bubble_up"
    /\ count = MaxCap
    /\ arg.index = count - 1
    /\ MinMaxHeap(arg.data, arg.index)
    /\ ~MinMaxHeap(arg.data, count)
    /\ parent(arg.index) \in wr
    /\ Cardinality(wr) = 3

----------------------------------------------------------------------------
\* The loops, one iteration at a time. The caller holds any array of up to
\* MaxCap values and starts sift_down, bubble_up, make_heap or is_heap on it;
\* op is the loop the call is in, arg.index the loop variable and arg.more
\* the flag tested by the loop condition.

\* one iteration of the while loop of sift_down_min, with mp the min child or
\* grandchild: sift_index = m and sift_more = true only after the exchange
\* with a grandchild
sift_down_min_iter(h, sift_index, right_index, mp) ==
    IF ~child(sift_index, mp.second) /\ h.a[mp.second] < h.a[sift_index]
    THEN [h |-> SwapIfParentSmaller(
                    Swap(Rd(h, mp.rd \cup {mp.second, sift_index}), mp.second, sift_index),
                    mp.second),
          index |-> mp.second, more |-> TRUE]
    ELSE [h |-> sift_down_min_body(h, sift_index, right_index, mp),
          index |-> sift_index, more |-> FALSE]

sift_down_max_iter(h, sift_index, right_index, mp) ==
    IF ~child(sift_index, mp.second) /\ h.a[sift_index] < h.a[mp.second]
    THEN [h |-> SwapIfParentLarger(
                    Swap(Rd(h, mp.rd \cup {mp.second, sift_index}), mp.second, sift_index),
                    mp.second),
          index |-> mp.second, more |-> TRUE]
    ELSE [h |-> sift_down_max_body(h, sift_index, right_index, mp),
          index |-> sift_index, more |-> FALSE]

\* one iteration of the while loop of bubble_up_min; more is !finished
bubble_up_min_iter(h, bubble_index) ==
    IF h.a[bubble_index] < h.a[gparent(bubble_index)]
    THEN [h |-> Swap(Rd(h, {bubble_index, gparent(bubble_index)}),
                     bubble_index, gparent(bubble_index)),
          index |-> gparent(bubble_index), more |-> TRUE]
    ELSE [h |-> Rd(h, {bubble_index, gparent(bubble_index)}),
          index |-> bubble_index, more |-> FALSE]

bubble_up_max_iter(h, bubble_index) ==
    IF h.a[gparent(bubble_index)] < h.a[bubble_index]
    THEN [h |-> Swap(Rd(h, {bubble_index, gparent(bubble_index)}),
                     bubble_index, gparent(bubble_index)),
          index |-> gparent(bubble_index), more |-> TRUE]
    ELSE [h |-> Rd(h, {bubble_index, gparent(bubble_index)}),
          index |-> bubble_index, more |-> FALSE]

\* bubble_up up to its call of bubble_up_min or bubble_up_max
bubble_up_entry(h, bubble_index) ==
    IF min_level(bubble_index)
    THEN IF has_parent(bubble_index)
            /\ h.a[parent(bubble_index)] < h.a[bubble_index]
         THEN [h |-> Swap(RdParent(h, bubble_index), bubble_index, parent(bubble_index)),
               loop |-> "bubble_up_max", index |-> parent(bubble_index)]
         ELSE [h |-> RdParent(h, bubble_index),
               loop |-> "bubble_up_min", index |-> bubble_index]
    ELSE IF has_parent(bubble_index)
            /\ h.a[bubble_index] < h.a[parent(bubble_index)]
         THEN [h |-> Swap(RdParent(h, bubble_index), bubble_index, parent(bubble_index)),
               loop |-> "bubble_up_min", index |-> parent(bubble_index)]
         ELSE [h |-> RdParent(h, bubble_index),
               loop |-> "bubble_up_max", index |-> bubble_index]

\* the index in a word of the counter of make_heap
IndexOf(w) == w[1] + 256 * w[2] + 65536 * w[3]

\* one iteration of the for loop of make_heap that never sets finished
make_heap_iter_NeverFinished(h, current, size) ==
    [h |-> sift_down(h, IndexOf(current), size - 1),
     current |-> Sub64(current, ToWord(1)),
     more |-> TRUE]

\* one iteration of the for loop of make_heap, current a 64-bit word:
\* sift_down, finished = current == 0, --current
make_heap_iter(h, current, size) ==
    [h |-> sift_down(h, IndexOf(current), size - 1),
     current |-> Sub64(current, ToWord(1)),
     more |-> ~(current = ToWord(0))]

\* one iteration of the while loop of is_heap, x the extremal child or
\* grandchild of parent(i); more is result
is_heap_iter(h, i, x) ==
    [h |-> Rd(h, {parent(i)} \cup x.rd \cup (IF x.first THEN {x.second} ELSE {})),
     index |-> i - 1,
     more |-> InOrder(h, parent(i), x)]

\* the position of a call: the operation called and the index it was given,
\* the loop variable (index, or the word current in make_heap), the right
\* bound, the flag of the loop condition, and the array as it was given
LoopArgs(call, start, index, current, right_index, more) ==
    [value |-> NoValue, call |-> call, start |-> start, index |-> index,
     current |-> current, right_index |-> right_index, more |-> more,
     data |-> IF op = "init" THEN heap_array ELSE arg.data]

StartLoops ==
    /\ max_size = MaxCap
    /\ count \in 0..MaxCap
    /\ heap_array \in [0..(count - 1) -> Vals]
    /\ op = "init"
    /\ arg = [value |-> NoValue, call |-> "none", start |-> NoValue, index |-> NoValue,
              current |-> ToWord(0), right_index |-> NoValue, more |-> FALSE,
              data |-> heap_array]
    /\ ret = NoValue
    /\ err = ErrNone
    /\ rd = {}
    /\ wr = {}
    /\ oob = FALSE
    /\ repairs = << >>
    /\ touched = FALSE
    /\ mode = "loops"
    /\ inserted = ZeroBag
    /\ removed = << >>

\* the call has come to name with arguments args and left h
LoopEffect(name, args, h) ==
    /\ \E r \in {Returns(h, NoValue)} : Effect(name, args, r)
    /\ UNCHANGED hist

BeginSiftDown ==
    /\ mode = "loops"
    /\ op = "init"
    /\ \E sift_index \in 0..(count - 1), g \in Vals :
          LoopEffect(IF min_level(sift_index) THEN "sift_down_min" ELSE "sift_down_max",
                     LoopArgs("sift_down", sift_index, sift_index, ToWord(0), count - 1, TRUE),
                     Mem(g))

BeginBubbleUp ==
    /\ mode = "loops"
    /\ op = "init"
    /\ \E bubble_index \in 0..(count - 1), g \in Vals :
          \E e \in {bubble_up_entry(Mem(g), bubble_index)} :
              LoopEffect(e.loop,
                         LoopArgs("bubble_up", bubble_index, e.index, ToWord(0), NoValue, TRUE),
                         e.h)

BeginMakeHeap ==
    /\ mode = "loops"
    /\ op = "init"
    /\ \E g \in Vals :
          IF count > 1
          THEN LoopEffect("make_heap",
                          LoopArgs("make_heap", NoValue, NoValue,
                                   ToWord(parent(count - 1)), count - 1, TRUE),
                          Mem(g))
          ELSE LoopEffect("done",
                          LoopArgs("make_heap", NoValue, NoValue, ToWord(0), NoValue, FALSE),
                          Mem(g))

BeginIsHeap ==
    /\ mode = "loops"
    /\ op = "init"
    /\ \E g \in Vals :
          IF count > 1
          THEN LoopEffect("is_heap",
                          LoopArgs("is_heap", NoValue, count - 1, ToWord(0), count - 1, TRUE),
                          Mem(g))
          ELSE LoopEffect("done",
                          LoopArgs("is_heap", NoValue, NoValue, ToWord(0), NoValue, TRUE),
                          Mem(g))

\* the condition of the loop the call is in
LoopCondition ==
    CASE op \in {"sift_down_min", "sift_down_max"} ->
             arg.more /\ left(arg.index) <= arg.right_index
      [] op \in {"bubble_up_min", "bubble_up_max"} ->
             arg.more /\ has_gparent(arg.index)
      [] op = "make_heap" -> arg.more
      [] op = "is_heap" -> arg.more /\ has_parent(arg.index)
      [] OTHER -> FALSE

\* the call goes through the loop once more: the iteration leaves index,
\* current, more and h
Iterate(index, current, more, h) ==
    LoopEffect(op, LoopArgs(arg.call, arg.start, index, current, arg.right_index, more), h)

SiftDownMinStep ==
    /\ op = "sift_down_min"
    /\ LoopCondition
    /\ \E g \in Vals :
          \E it \in {sift_down_min_iter(Mem(g), arg.index, arg.right_index,
                          min_child_or_gchild(Fill(heap_array, count, g),
                                              arg.index, arg.right_index))} :
              Iterate(it.index, arg.current, it.more, it.h)

SiftDownMaxStep ==
    /\ op = "sift_down_max"
    /\ LoopCondition
    /\ \E g \in Vals :
          \E it \in {sift_down_max_iter(Mem(g), arg.index, arg.right_index,
                          max_child_or_gchild(Fill(heap_array, count, g),
                                              arg.index, arg.right_index))} :
              Iterate(it.index, arg.current, it.more, it.h)

BubbleUpMinStep ==
    /\ op = "bubble_up_min"
    /\ LoopCondition
    /\ \E g \in Vals :
          \E it \in {bubble_up_min_iter(Mem(g), arg.index)} : Iterate(it.index, arg.current, it.more, it.h)

BubbleUpMaxStep ==
    /\ op = "bubble_up_max"
    /\ LoopCondition
    /\ \E g \in Vals :
          \E it \in {bubble_up_max_iter(Mem(g), arg.index)} : Iterate(it.index, arg.current, it.more, it.h)

MakeHeapStep ==
    /\ op = "make_heap"
    /\ LoopCondition
    /\ \E g \in Vals :
          \E it \in {make_heap_iter(Mem(g), arg.current, count)} : Iterate(arg.index, it.current, it.more, it.h)

IsHeapStep ==
    /\ op = "is_heap"
    /\ LoopCondition
    /\ \E g \in Vals :
          \E it \in {is_heap_iter(Mem(g), arg.index,
                          IF min_level(parent(arg.index))
                          THEN min_child_or_gchild(Fill(heap_array, count, g),
                                                   parent(arg.index), count - 1)
                          ELSE max_child_or_gchild(Fill(heap_array, count, g),
                                                   parent(arg.index), count - 1))} :
              Iterate(it.index, arg.current, it.more, it.h)

\* the loop condition is false: the call returns
LoopExit ==
    /\ op \notin {"init", "done"}
    /\ ~LoopCondition
    /\ op' = "done"
    /\ UNCHANGED <<heap_array, count, max_size, arg, ret, err, rd, wr, oob, repairs, touched>>
    /\ UNCHANGED hist

NextLoops ==
    \/ BeginSiftDown
    \/ BeginBubbleUp
    \/ BeginMakeHeap
    \/ BeginIsHeap
    \/ SiftDownMinStep
    \/ SiftDownMaxStep
    \/ BubbleUpMinStep
    \/ BubbleUpMaxStep
    \/ MakeHeapStep
    \/ IsHeapStep
    \/ LoopExit

\* The program is single-threaded and runs on: a step that can be taken is
\* taken. This is weak fairness of NextLoops, which by definition is
\*     []<>~(ENABLED <<NextLoops>>_vars) \/ []<><<NextLoops>>_vars,
\* written with what ENABLED <<NextLoops>>_vars comes to here: a call has a
\* next step, an iteration or the exit of its loop, unless it has returned.
RunsOn == []<>(op = "done") \/ []<><<NextLoops>>_vars

SpecLoops == StartLoops /\ [][NextLoops]_vars /\ RunsOn

\* what the loops leave is what the operations as a whole compute
LoopsAgree ==
    op = "done" =>
        \E g \in Vals :
            LET h0 == Fresh(Fill(arg.data, count, g), count)
            IN  CASE arg.call = "sift_down" ->
                         heap_array = Occupied(sift_down(h0, arg.start, count - 1).a, count)
                  [] arg.call = "bubble_up" ->
                         heap_array = Occupied(bubble_up(h0, arg.start).a, count)
                  [] arg.call = "make_heap" ->
                         heap_array = Occupied(make_heap(h0, count).h.a, count)
                  [] arg.call = "is_heap" ->
                         arg.more = is_heap(h0).ret

\* C25: every operation runs to its end on every input. An iteration of a
\* sift_down loop either is the last one or moves sift_index to a larger
\* index; an iteration of a bubble_up loop either is the last one or moves
\* bubble_index to a smaller index; the loop of make_heap goes on only with a
\* counter below the one it had, and after index 0 it stops although its
\* counter has wrapped around; the loop of is_heap counts down to the root.
C25_Step ==
    /\ (op \in {"sift_down_min", "sift_down_max"} /\ op' = op) =>
           /\ arg'.more => arg'.index > arg.index
           /\ arg'.index <= arg.right_index
    /\ (op \in {"bubble_up_min", "bubble_up_max"} /\ op' = op) =>
           /\ arg'.more => arg'.index < arg.index
           /\ arg'.index >= 0
    /\ (op = "make_heap" /\ op' = op) =>
           /\ arg'.more <=> IndexOf(arg.current) > 0
           /\ arg'.more => /\ \A j \in 4..8 : arg'.current[j] = 0
                           /\ IndexOf(arg'.current) = IndexOf(arg.current) - 1
    /\ (op = "is_heap" /\ op' = op) =>
           /\ arg'.index = arg.index - 1
           /\ arg'.index >= 0

C25_Terminates == [][C25_Step]_vars /\ <>(op = "done")

\* make_heap on MaxCap values has come to its end, with its counter wrapped
\* around to 2^64 - 1 after index 0, and it has moved values
C25_Witness ==
    /\ op = "done"
    /\ arg.call = "make_heap"
    /\ count = MaxCap
    /\ arg.current = << 255, 255, 255, 255, 255, 255, 255, 255 >>
    /\ ~arg.more
    /\ heap_array # arg.data

====
